---- MODULE Spec2Model ----
(***************************************************************************)
(* XMLForm-renderer: the XMLFormRenderer screen (src/App.js) and the       *)
(* DrawingModal signature capture component it embeds (the component       *)
(* source kept in src/sampleXMLs.txt, lines 44-267).                       *)
(*                                                                         *)
(* One action per handler.  A handler's action includes the re-render it   *)
(* causes and the drawPaths effect of that re-render.                      *)
(***************************************************************************)
EXTENDS Integers, Sequences, FiniteSets, TLC

(***************************************************************************)
(* Bounds of the model.                                                    *)
(***************************************************************************)
\* canvas size in cells (the code: window width - 40 by 300)
CanvasW == 2
CanvasH == 2
\* most points one stroke records (grant + moves)
MaxPoints == 3
\* most toDataURL promises in flight at once
MaxPending == 1
\* most committed strokes, and most runs of the effect, when the repaint is
\* checked on its own
MaxStrokes == 2
MaxRuns == 2

(***************************************************************************)
(* Values.                                                                 *)
(***************************************************************************)
\* JavaScript null, for object-valued state
Null == [null |-> TRUE]
\* JavaScript null, for string-valued state
NullStr == "null"

Pt(px, py) == [x |-> px, y |-> py]

\* a JavaScript string held as a form value
Str(s) == [text |-> s]

\* locationX/locationY values the touch events deliver: one inside the
\* canvas, one outside it (x = width is past the last column)
TouchPoints == {Pt(0, 0), Pt(CanvasW, 0)}

\* the stroke width set by onPanResponderGrant
StrokeWidth == 2

Cells == (0 .. CanvasW - 1) \X (0 .. CanvasH - 1)

(***************************************************************************)
(* The canvas: a pixel per cell.  A canvas that was never drawn on is      *)
(* transparent.                                                            *)
(***************************************************************************)
NewCanvas == [pixels |-> [c \in Cells |-> "transparent"]]

Min(a, b) == IF a <= b THEN a ELSE b
Max(a, b) == IF a >= b THEN a ELSE b

\* cell c lies on the straight segment from point a to point b
OnSegment(a, b, c) ==
    /\ (b.x - a.x) * (c[2] - a.y) = (b.y - a.y) * (c[1] - a.x)
    /\ Min(a.x, b.x) <= c[1] /\ c[1] <= Max(a.x, b.x)
    /\ Min(a.y, b.y) <= c[2] /\ c[2] <= Max(a.y, b.y)

\* the cells beginPath / moveTo / lineTo* / stroke paints for one path: the
\* segments between consecutive points, clipped to the canvas; a path of
\* one point has no segment and paints nothing
StrokeCells(path) ==
    UNION {{c \in Cells : OnSegment(path.points[i], path.points[i + 1], c)}
             : i \in 1 .. Len(path.points) - 1}

\* a fill that leaves the surface as it finds it
fillRect_Skipped(pixels) == pixels

\* a fill composited with 'difference': white over white gives black,
\* white over anything else gives white
fillRect_Difference(pixels) ==
    [c \in Cells |-> IF pixels[c] = "white" THEN "black" ELSE "white"]

\* ctx.fillStyle = 'white'; ctx.fillRect(0, 0, canvas.width, canvas.height)
fillRect(pixels) == [c \in Cells |-> "white"]

\* one path drawn over the pixels
stroke(pixels, path) ==
    [c \in Cells |-> IF c \in StrokeCells(path) THEN path.color ELSE pixels[c]]

RECURSIVE strokeAll(_, _)
\* paths.forEach(path => ... ctx.stroke()), in list order
strokeAll(pixels, ps) ==
    IF ps = <<>> THEN pixels
    ELSE strokeAll(stroke(pixels, Head(ps)), Tail(ps))

\* the body of the drawPaths effect
drawPaths(cv, ps, cp) ==
    IF cv # Null
    THEN LET cleared == fillRect(cv.pixels)
             stored  == strokeAll(cleared, ps)
         IN  [pixels |-> IF cp # Null THEN stroke(stored, cp) ELSE stored]
    ELSE cv

\* an effect with an empty dependency list: it never runs again
useEffect_NoDeps(depsChanged, cv, ps, cp) == cv

\* useEffect(..., [paths, currentPath]): the effect runs after a render in
\* which a dependency changed identity
useEffect(depsChanged, cv, ps, cp) ==
    IF depsChanged THEN drawPaths(cv, ps, cp) ELSE cv

RECURSIVE RowMajor(_, _)
\* the pixels in row-major order, from cell index i on
RowMajor(pixels, i) ==
    IF i >= CanvasW * CanvasH THEN <<>>
    ELSE <<pixels[<<i % CanvasW, i \div CanvasW>>]>> \o RowMajor(pixels, i + 1)

\* canvas.toDataURL(): the image of the surface as a data URL
toDataURL(cv) == [mime |-> "image/png", data |-> RowMajor(cv.pixels, 0)]

(***************************************************************************)
(* Forms.                                                                  *)
(***************************************************************************)
Field(i, t, r) == [id |-> i, type |-> t, required |-> r]

\* DEFAULT_XML_DATA, shortened to one text field and the drawing field
DEFAULT_XML_DATA ==
    [kind |-> "form",
     fields |-> <<Field("name", "text", FALSE), Field("signature", "drawing", TRUE)>>]

\* a custom form with two drawing fields
TwoSignaturesXML ==
    [kind |-> "form",
     fields |-> <<Field("signature", "drawing", TRUE), Field("witness", "drawing", FALSE)>>]

\* the sample whose field has an unsupported type
UnsupportedXML ==
    [kind |-> "form", fields |-> <<Field("invalidField", "unsupported", TRUE)>>]

\* an empty (or all-blank) string, and a string that is not well-formed XML
BlankXML == [kind |-> "blank", fields |-> <<>>]
MalformedXML == [kind |-> "malformed", fields |-> <<>>]

\* a well-formed document without any <field>: result?.form?.field || []
EmptyFormXML == [kind |-> "form", fields |-> <<>>]

\* a field without a type attribute: field.$.type is undefined
MissingTypeXML ==
    [kind |-> "form",
     fields |-> <<Field("signature", "drawing", TRUE), Field("name", "undefined", FALSE)>>]

XmlInputs ==
    {DEFAULT_XML_DATA, TwoSignaturesXML, UnsupportedXML, BlankXML, MalformedXML,
     EmptyFormXML, MissingTypeXML}

FieldIds == {"name", "signature", "witness", "invalidField"}

\* Formik's initialValues: every field starts as the empty string
initialValues == [f \in FieldIds |-> Str("")]

VARIABLES
    \* XMLFormRenderer state (App.js 78-86)
    modalVisible, formMode, parsedFields, formError, drawingModalVisible,
    currentDrawingField, formikSetFieldValue, signatureSaved,
    \* the values of the Formik form (App.js 191-200)
    values,
    \* DrawingModal state (sampleXMLs.txt 68-70, 80-121): panResponder holds
    \* what its handlers closed over when PanResponder.create ran
    paths, currentPath, panResponder, canvasRef,
    \* the responder system: the pan responder holds the touch, from
    \* onPanResponderGrant until the touch is released or taken away
    gesture,
    \* the locations of the touch events of the latest gesture, in order
    touches,
    \* toDataURL promises not yet settled (sampleXMLs.txt 185), oldest
    \* first, each with the props its saveDrawing call closed over
    pending,
    \* an exception no handler caught
    crashed,
    \* the handler that ran last and the callbacks it invoked
    event, calls

appVars == <<modalVisible, formMode, parsedFields, formError, drawingModalVisible,
             currentDrawingField, formikSetFieldValue, signatureSaved, values>>
drawVars == <<paths, currentPath, panResponder, canvasRef, gesture, touches>>
vars == <<appVars, drawVars, pending, crashed, event, calls>>

Call(f, a) == [fn |-> f, arg |-> a]

\* the Formik element is rendered inside the visible form modal when there
\* are fields
FormikMounted(visible, fields) == visible /\ Len(fields) > 0

(***************************************************************************)
(* XMLFormRenderer                                                         *)
(***************************************************************************)
validFieldTypes == {"text", "datetime", "radio", "drawing"}

\* a parseXML that shows whatever fields the document has
parseXML_NoTypeCheck(xmlInput, fields, visible) ==
    IF xmlInput.kind = "blank"
    THEN [formError |-> "XML input cannot be empty", parsedFields |-> fields,
          modalVisible |-> visible]
    ELSE IF xmlInput.kind = "malformed"
    THEN [formError |-> "Invalid XML format", parsedFields |-> fields,
          modalVisible |-> visible]
    ELSE [formError |-> NullStr, parsedFields |-> xmlInput.fields,
          modalVisible |-> TRUE]

\* parseXML(xmlInput): the state it leaves, from the state before
parseXML(xmlInput, fields, visible) ==
    IF xmlInput.kind = "blank"
    THEN [formError |-> "XML input cannot be empty", parsedFields |-> fields,
          modalVisible |-> visible]
    ELSE IF xmlInput.kind = "malformed"
    THEN [formError |-> "Invalid XML format", parsedFields |-> fields,
          modalVisible |-> visible]
    ELSE LET invalidFields ==
                 SelectSeq(xmlInput.fields, LAMBDA f : f.type \notin validFieldTypes)
         IN  IF Len(invalidFields) > 0
             THEN [formError |-> "Invalid field types", parsedFields |-> fields,
                   modalVisible |-> visible]
             ELSE [formError |-> NullStr, parsedFields |-> xmlInput.fields,
                   modalVisible |-> TRUE]

\* DrawingModal's state when the component mounts
DrawingModalInit ==
    /\ paths = <<>>
    /\ currentPath = Null
    \* PanResponder.create runs in the first render: its handlers close over
    \* that render's currentPath
    /\ panResponder = [currentPath |-> Null]
    /\ canvasRef = Null
    /\ gesture = FALSE
    /\ touches = <<>>

Init ==
    /\ modalVisible = FALSE
    /\ formMode = NullStr
    /\ parsedFields = <<>>
    /\ formError = NullStr
    /\ drawingModalVisible = FALSE
    /\ currentDrawingField = NullStr
    /\ formikSetFieldValue = "null"
    /\ signatureSaved = FALSE
    /\ values = initialValues
    /\ DrawingModalInit
    /\ pending = <<>>
    /\ crashed = FALSE
    /\ event = "init"
    /\ calls = <<>>

\* a setFieldValue whose Formik element has unmounted updates nothing
Unmounted(setter) == IF setter = "mounted" THEN "unmounted" ELSE setter

\* The render after the form modal's state becomes (visible, fields):
\* Formik and its values exist while the element is rendered, its effect
\* stores setFieldValue in formikSetFieldValue when it mounts, and the
\* DrawingModal element (and its state) exists while the form modal shows
\* its children.  vals: the form values if the same Formik element stays.
RenderForm(visible, fields, vals) ==
    LET was == FormikMounted(modalVisible, parsedFields)
        is  == FormikMounted(visible, fields)
    IN  /\ modalVisible' = visible
        /\ parsedFields' = fields
        /\ values' = IF is /\ was THEN vals ELSE initialValues
        /\ formikSetFieldValue' =
               IF is THEN "mounted" ELSE Unmounted(formikSetFieldValue)
        /\ pending' = IF is /\ was THEN pending
                      ELSE [i \in DOMAIN pending |->
                               [pending[i] EXCEPT !.setter = Unmounted(@)]]
        /\ IF visible /\ modalVisible
           THEN UNCHANGED <<paths, currentPath, panResponder, canvasRef, gesture, touches>>
           ELSE /\ touches' = <<>>
                /\ paths' = <<>>
                /\ currentPath' = Null
                /\ panResponder' = [currentPath |-> Null]
                /\ canvasRef' = Null
                /\ gesture' = FALSE

\* "Render Form from XML File"
RenderFromFile ==
    /\ ~crashed /\ ~modalVisible
    /\ LET r == parseXML(DEFAULT_XML_DATA, parsedFields, modalVisible)
       IN  /\ formError' = r.formError
           /\ RenderForm(r.modalVisible, r.parsedFields, values)
    /\ formMode' = "file"
    /\ event' = "renderFromFile"
    /\ calls' = <<Call("parseXML", DEFAULT_XML_DATA)>>
    /\ UNCHANGED <<drawingModalVisible, currentDrawingField, signatureSaved, crashed>>

\* "Render Form from XML Input"
RenderFromInput ==
    /\ ~crashed /\ ~modalVisible
    /\ formMode' = "custom"
    /\ RenderForm(TRUE, <<>>, values)
    /\ event' = "renderFromInput" /\ calls' = <<>>
    /\ UNCHANGED <<formError, drawingModalVisible, currentDrawingField,
                   signatureSaved, crashed>>

\* "Parse Custom XML", with the text typed into the XML input
ParseCustom(xmlInput) ==
    /\ ~crashed /\ modalVisible /\ ~drawingModalVisible /\ formMode = "custom"
    /\ LET r == parseXML(xmlInput, parsedFields, modalVisible)
       IN  /\ formError' = r.formError
           /\ RenderForm(r.modalVisible, r.parsedFields, values)
    /\ event' = "parseCustom"
    /\ calls' = <<Call("parseXML", xmlInput)>>
    /\ UNCHANGED <<formMode, drawingModalVisible, currentDrawingField,
                   signatureSaved, crashed>>

\* the form modal's Close button and its onRequestClose
CloseForm ==
    /\ ~crashed /\ modalVisible /\ ~drawingModalVisible
    /\ RenderForm(FALSE, <<>>, values)
    /\ formMode' = NullStr
    /\ formError' = NullStr
    /\ event' = "closeForm" /\ calls' = <<>>
    /\ UNCHANGED <<drawingModalVisible, currentDrawingField, signatureSaved, crashed>>

\* the validation schema: every required field has a value
Valid(fields, vals) ==
    \A i \in DOMAIN fields : fields[i].required => vals[fields[i].id] # Str("")

\* Submit, when validation passes: Formik's onSubmit
Submit ==
    /\ ~crashed /\ ~drawingModalVisible
    /\ FormikMounted(modalVisible, parsedFields)
    /\ Valid(parsedFields, values)
    /\ RenderForm(FALSE, parsedFields, initialValues)
    /\ signatureSaved' = FALSE
    /\ event' = "submit" /\ calls' = <<Call("Alert.alert", "Form Submitted")>>
    /\ UNCHANGED <<formMode, formError, drawingModalVisible, currentDrawingField, crashed>>

\* the Canvas a DrawingModal holding (ps, cp) mounts when it becomes
\* visible: paths and currentPath keep their identity in that render, so
\* the drawPaths effect does not run on the new Canvas
OpenedCanvas(ps, cp) == useEffect(FALSE, NewCanvas, ps, cp)

\* a drawing field's "Open Drawing Canvas" button: the DrawingModal becomes
\* visible and mounts a new Canvas; paths and currentPath keep their
\* identity, so the drawPaths effect does not run
OpenDrawing(id) ==
    /\ ~crashed /\ ~drawingModalVisible
    /\ FormikMounted(modalVisible, parsedFields)
    /\ \E i \in DOMAIN parsedFields :
          parsedFields[i].id = id /\ parsedFields[i].type = "drawing"
    /\ drawingModalVisible' = TRUE
    /\ currentDrawingField' = id
    /\ canvasRef' = OpenedCanvas(paths, currentPath)
    /\ event' = "openDrawing" /\ calls' = <<>>
    /\ UNCHANGED <<modalVisible, formMode, parsedFields, formError, formikSetFieldValue,
                   signatureSaved, values, paths, currentPath, panResponder, gesture,
                   touches, pending, crashed>>

(***************************************************************************)
(* DrawingModal                                                            *)
(***************************************************************************)
\* a grant that starts the stroke without its first point
onPanResponderGrant_NoPoint(location) ==
    [points |-> <<>>, color |-> "black", width |-> StrokeWidth]

\* onPanResponderGrant: the path setCurrentPath is given
onPanResponderGrant(location) ==
    [points |-> <<location>>, color |-> "black", width |-> StrokeWidth]

\* a move that clamps the touch to the canvas before recording it
onPanResponderMove_Clamped(current, location) ==
    [current EXCEPT !.points =
        Append(current.points,
               Pt(Max(0, Min(CanvasW - 1, location.x)),
                  Max(0, Min(CanvasH - 1, location.y))))]

\* onPanResponderMove: the updater given to setCurrentPath
onPanResponderMove(current, location) ==
    [current EXCEPT !.points = Append(current.points, location)]

\* a release that reads the live currentPath and stores it as the whole list
onPanResponderRelease_Replaces(closed, ps, cp) ==
    IF cp # Null
    THEN [paths |-> <<cp>>, currentPath |-> Null, changed |-> TRUE]
    ELSE [paths |-> ps, currentPath |-> cp, changed |-> FALSE]

\* onPanResponderRelease: the state it leaves.  closed is the currentPath
\* the handler closed over when PanResponder.create ran
onPanResponderRelease(closed, ps, cp) ==
    IF closed # Null
    THEN [paths |-> Append(ps, closed), currentPath |-> Null, changed |-> TRUE]
    ELSE [paths |-> ps, currentPath |-> cp, changed |-> FALSE]

\* a clear that forgets setCurrentPath(null)
clearCanvas_KeepsCurrent(ps, cp) == [paths |-> <<>>, currentPath |-> cp]

\* clearCanvas: the state it leaves
clearCanvas(ps, cp) == [paths |-> <<>>, currentPath |-> Null]

\* the touch starts on the drawing modal's container
Grant(location) ==
    /\ ~crashed /\ drawingModalVisible /\ ~gesture
    /\ gesture' = TRUE
    /\ touches' = <<location>>
    /\ currentPath' = onPanResponderGrant(location)
    /\ canvasRef' = useEffect(TRUE, canvasRef, paths, currentPath')
    /\ event' = "grant" /\ calls' = <<>>
    /\ UNCHANGED <<appVars, paths, panResponder, pending, crashed>>

\* the touch moves; the updater reads current.points and throws when
\* current is null
Move(location) ==
    /\ ~crashed /\ gesture
    /\ currentPath # Null => Len(currentPath.points) < MaxPoints
    /\ IF currentPath # Null
       THEN /\ currentPath' = onPanResponderMove(currentPath, location)
            /\ canvasRef' = useEffect(TRUE, canvasRef, paths, currentPath')
            /\ UNCHANGED crashed
       ELSE /\ crashed' = TRUE
            /\ UNCHANGED <<currentPath, canvasRef>>
    /\ touches' = Append(touches, location)
    /\ event' = "move" /\ calls' = <<>>
    /\ UNCHANGED <<appVars, paths, panResponder, gesture, pending>>

\* the touch ends
Release ==
    /\ ~crashed /\ gesture
    /\ gesture' = FALSE
    /\ LET r == onPanResponderRelease(panResponder.currentPath, paths, currentPath)
       IN  /\ paths' = r.paths
           /\ currentPath' = r.currentPath
           /\ canvasRef' = useEffect(r.changed, canvasRef, paths', currentPath')
    /\ event' = "release" /\ calls' = <<>>
    /\ UNCHANGED <<appVars, panResponder, touches, pending, crashed>>

\* the host takes the touch away (responder terminated); PanResponder.create
\* was given no onPanResponderTerminate
Terminate ==
    /\ ~crashed /\ gesture
    /\ gesture' = FALSE
    /\ event' = "terminate" /\ calls' = <<>>
    /\ UNCHANGED <<appVars, paths, currentPath, panResponder, canvasRef, touches, pending, crashed>>

\* a Clear button that can be pressed while the container holds the touch
Clear_DuringGesture ==
    /\ ~crashed /\ drawingModalVisible
    /\ LET r == clearCanvas(paths, currentPath)
       IN  /\ paths' = r.paths
           /\ currentPath' = r.currentPath
    /\ canvasRef' = useEffect(TRUE, canvasRef, paths', currentPath')
    /\ event' = "clear" /\ calls' = <<>>
    /\ UNCHANGED <<appVars, panResponder, gesture, touches, pending, crashed>>

\* the Clear button; setPaths([]) is a new array, so the effect runs.  The
\* buttons lie inside the container that holds the pan handlers: while the
\* container is the responder a touch on a button is not offered to the
\* button, so a button is pressed only when no gesture is in progress
Clear ==
    /\ ~crashed /\ drawingModalVisible /\ ~gesture
    /\ LET r == clearCanvas(paths, currentPath)
       IN  /\ paths' = r.paths
           /\ currentPath' = r.currentPath
    /\ canvasRef' = useEffect(TRUE, canvasRef, paths', currentPath')
    /\ event' = "clear" /\ calls' = <<>>
    /\ UNCHANGED <<appVars, panResponder, gesture, touches, pending, crashed>>

\* the Save button: saveDrawing up to its await.  The promise carries the
\* image of the surface as it is now, and the onSave of this render, which
\* closed over formikSetFieldValue and currentDrawingField
Save ==
    /\ ~crashed /\ drawingModalVisible /\ ~gesture
    /\ Len(pending) < MaxPending
    /\ pending' = IF canvasRef # Null
                  THEN Append(pending, [dataURL |-> toDataURL(canvasRef),
                                        setter |-> formikSetFieldValue,
                                        field |-> currentDrawingField])
                  ELSE pending
    /\ event' = "save" /\ calls' = <<>>
    /\ UNCHANGED <<appVars, drawVars, crashed>>

\* the onClose prop: the state of XMLFormRenderer it leaves
onClose(app) ==
    [app EXCEPT !.drawingModalVisible = FALSE, !.currentDrawingField = NullStr]

\* the onSave prop of the render that closed over (setter, field)
onSave(app, setter, field, dataURL) ==
    LET stored ==
            IF setter # "null" /\ field # NullStr
            THEN [app EXCEPT !.values = IF setter = "mounted"
                                        THEN [@ EXCEPT ![field] = dataURL]
                                        ELSE @,
                             !.signatureSaved = TRUE]
            ELSE app
    IN  [stored EXCEPT !.drawingModalVisible = FALSE, !.currentDrawingField = NullStr]

App == [drawingModalVisible |-> drawingModalVisible,
        currentDrawingField |-> currentDrawingField,
        values |-> values,
        signatureSaved |-> signatureSaved]

\* XMLFormRenderer's state becomes app; a DrawingModal that is no longer
\* visible unmounts its Canvas and loses the touch
SetApp(app) ==
    /\ drawingModalVisible' = app.drawingModalVisible
    /\ currentDrawingField' = app.currentDrawingField
    /\ values' = app.values
    /\ signatureSaved' = app.signatureSaved
    /\ IF app.drawingModalVisible
       THEN UNCHANGED <<canvasRef, gesture>>
       ELSE canvasRef' = Null /\ gesture' = FALSE
    /\ UNCHANGED <<modalVisible, formMode, parsedFields, formError, formikSetFieldValue,
                   paths, currentPath, panResponder, touches>>

\* a saveDrawing that reports the image twice
saveDrawingCalls_SaveTwice(dataURL) ==
    <<Call("onSave", dataURL), Call("onSave", dataURL), Call("onClose", Null)>>

\* a saveDrawing that leaves out onClose()
saveDrawingCalls_NoClose(dataURL) == <<Call("onSave", dataURL)>>

\* the calls saveDrawing makes once toDataURL has resolved
saveDrawingCalls(dataURL) == <<Call("onSave", dataURL), Call("onClose", Null)>>

RECURSIVE Invoke(_, _, _)
\* XMLFormRenderer's state after the callbacks cs ran in order, each the
\* prop of the render promise p closed over
Invoke(app, cs, p) ==
    IF cs = <<>> THEN app
    ELSE LET c == Head(cs)
             next == IF c.fn = "onSave" THEN onSave(app, p.setter, p.field, c.arg)
                     ELSE IF c.fn = "onClose" THEN onClose(app)
                     ELSE app
         IN  Invoke(next, Tail(cs), p)

\* toDataURL resolves: saveDrawing continues after its await
SaveResolve ==
    /\ ~crashed /\ pending # <<>>
    /\ LET p == Head(pending)
       IN  /\ calls' = saveDrawingCalls(p.dataURL)
           /\ SetApp(Invoke(App, calls', p))
    /\ pending' = Tail(pending)
    /\ event' = "saveResolve"
    /\ UNCHANGED crashed

\* a catch block that also closes the capture UI
saveDrawingCatch_Closes ==
    <<Call("console.error", Null), Call("Alert.alert", Str("Could not save drawing")),
      Call("onClose", Null)>>

\* the calls of saveDrawing's catch block
saveDrawingCatch ==
    <<Call("console.error", Null), Call("Alert.alert", Str("Could not save drawing"))>>

\* toDataURL rejects: saveDrawing's catch block
SaveReject ==
    /\ ~crashed /\ pending # <<>>
    /\ calls' = saveDrawingCatch
    /\ SetApp(Invoke(App, calls', Head(pending)))
    /\ pending' = Tail(pending)
    /\ event' = "saveReject"
    /\ UNCHANGED crashed

\* the Cancel button
Cancel ==
    /\ ~crashed /\ drawingModalVisible /\ ~gesture
    /\ SetApp(onClose(App))
    /\ event' = "cancel" /\ calls' = <<Call("onClose", Null)>>
    /\ UNCHANGED <<pending, crashed>>

\* the drawing modal's onRequestClose (the host's back request)
RequestClose ==
    /\ ~crashed /\ drawingModalVisible
    /\ SetApp(onClose(App))
    /\ event' = "requestClose" /\ calls' = <<Call("onClose", Null)>>
    /\ UNCHANGED <<pending, crashed>>

\* the handlers of the DrawingModal
DrawingNext ==
    \/ \E location \in TouchPoints : Grant(location)
    \/ \E location \in TouchPoints : Move(location)
    \/ Release
    \/ Terminate
    \/ Clear
    \/ Save
    \/ SaveResolve
    \/ SaveReject
    \/ Cancel
    \/ RequestClose

\* The signature capture in the form of DEFAULT_XML_DATA: the form is
\* rendered from the file and closed, its drawing field opens the
\* DrawingModal, and every handler of the DrawingModal runs.
Next ==
    \/ RenderFromFile
    \/ CloseForm
    \/ \E id \in FieldIds : OpenDrawing(id)
    \/ DrawingNext

Spec == Init /\ [][Next]_vars

\* The form screen with every way of rendering, parsing, submitting and
\* closing a form, and a capture UI whose gestures are single taps.
FormNext ==
    \/ RenderFromFile
    \/ RenderFromInput
    \/ \E xmlInput \in XmlInputs : ParseCustom(xmlInput)
    \/ CloseForm
    \/ Submit
    \/ \E id \in FieldIds : OpenDrawing(id)
    \/ Grant(Pt(0, 0))
    \/ Release
    \/ Clear
    \/ Save
    \/ SaveResolve
    \/ SaveReject
    \/ Cancel
    \/ RequestClose

SpecForm == Init /\ [][FormNext]_vars

\* locationX/locationY inside the canvas, negative, and beyond its width
\* and height
GesturePoints == {Pt(0, 0), Pt(0 - 1, 0 - 1), Pt(CanvasW, CanvasH)}

\* Drawing on the capture UI of the default form with touches that leave
\* the canvas: the form is rendered, its drawing field opens the
\* DrawingModal, and the gesture handlers and Clear run.
GestureNext ==
    \/ RenderFromFile
    \/ \E id \in FieldIds : OpenDrawing(id)
    \/ \E location \in GesturePoints : Grant(location)
    \/ \E location \in GesturePoints : Move(location)
    \/ Release
    \/ Clear

SpecGesture == Init /\ [][GestureNext]_vars

(***************************************************************************)
(* The drawPaths effect on its own: the repaint applied to any surface     *)
(* and any list of strokes.                                                *)
(***************************************************************************)
\* what a surface can hold before a repaint: untouched, one colour all
\* over, or an earlier drawing
RepaintSurfaces ==
    {[pixels |-> [c \in Cells |-> k]] : k \in {"transparent", "white", "black"}}
       \cup {[pixels |-> [c \in Cells |-> IF (c[1] + c[2]) % 2 = 0 THEN "black"
                                          ELSE "transparent"]]}

\* strokes as the pan handlers build them: a tap, a row, a column, a diagonal
RepaintStrokes ==
    {[points |-> ps, color |-> "black", width |-> StrokeWidth] :
        ps \in {<<Pt(0, 0)>>,
                <<Pt(0, 0), Pt(CanvasW, 0)>>,
                <<Pt(0, 0), Pt(0, CanvasH)>>,
                <<Pt(CanvasW, 0), Pt(0, CanvasH)>>}}

\* the lists of at most MaxStrokes strokes
RepaintPaths ==
    UNION {[1 .. n -> RepaintStrokes] : n \in 0 .. MaxStrokes}

\* a DrawingModal shown for the signature field of the default form, with
\* any surface, paths and currentPath
RepaintInit ==
    /\ modalVisible = TRUE
    /\ formMode = "file"
    /\ parsedFields = DEFAULT_XML_DATA.fields
    /\ formError = NullStr
    /\ drawingModalVisible = TRUE
    /\ currentDrawingField = "signature"
    /\ formikSetFieldValue = "mounted"
    /\ signatureSaved = FALSE
    /\ values = initialValues
    /\ paths \in RepaintPaths
    /\ currentPath \in RepaintStrokes \cup {Null}
    /\ panResponder = [currentPath |-> Null]
    /\ canvasRef \in RepaintSurfaces
    /\ gesture = FALSE
    /\ touches = <<>>
    /\ pending = <<>>
    /\ crashed = FALSE
    /\ event = "init"
    /\ calls = <<>>

\* the drawPaths effect runs once more on the surface; calls logs the
\* surface each run found
Repaint ==
    /\ Len(calls) < MaxRuns
    /\ canvasRef' = useEffect(TRUE, canvasRef, paths, currentPath)
    /\ event' = "drawPaths"
    /\ calls' = Append(calls, Call("drawPaths", canvasRef))
    /\ UNCHANGED <<appVars, paths, currentPath, panResponder, gesture, touches,
                   pending, crashed>>

RepaintNext == Repaint

SpecRepaint == RepaintInit /\ [][RepaintNext]_vars

(***************************************************************************)
(* Properties                                                              *)
(***************************************************************************)
IsPrefix(s, t) == Len(s) <= Len(t) /\ SubSeq(t, 1, Len(s)) = s

CallsOf(cs, f) == SelectSeq(cs, LAMBDA c : c.fn = f)

Dismissals == {"cancel", "requestClose"}

\* C1: a complete grant -> release cycle leaves paths exactly one element
\* longer: the release step appends one stroke.
C1_ReleaseAddsOneStroke ==
    [][event' = "release" => Len(paths') = Len(paths) + 1]_vars

\* C2: after grant at p0, moves at p1..pn and release, the last element of
\* paths has the points p0..pn in order and currentPath is null.
C2_ReleaseCommitsTouches ==
    event = "release" =>
        /\ paths # <<>>
        /\ paths[Len(paths)].points = touches
        /\ currentPath = Null

\* C3: a gesture the host cancels (responder terminated) is committed like
\* a released one: the stroke with the points so far is appended to paths
\* and currentPath becomes null.
C3_CancelCommitsStroke ==
    event = "terminate" =>
        /\ currentPath = Null
        /\ paths # <<>>
        /\ paths[Len(paths)].points = touches

\* C4: after Clear, from whatever state it was pressed in, paths is empty
\* and currentPath is null, and no error was raised.
C4_ClearEmptiesBoth ==
    event = "clear" => (paths = <<>> /\ currentPath = Null /\ ~crashed)

\* Clear ran after a gesture that recorded a stroke of two points or more
C4_Witness ==
    /\ event = "clear"
    /\ Len(touches) >= 2
    /\ paths = <<>> /\ currentPath = Null

\* C5: after Clear the surface (and so the image a Save would encode) is
\* that of a freshly opened, untouched capture UI.
C5_ClearRestoresFreshSurface ==
    event = "clear" => toDataURL(canvasRef) = toDataURL(OpenedCanvas(<<>>, Null))

C7_SaveEncodesRepaintedSurface ==
    event = "save" =>
        /\ canvasRef # Null
        /\ canvasRef = drawPaths(NewCanvas, paths, currentPath)

\* C8: a gesture or Clear step that changes paths or currentPath leaves the
\* canvas fully repainted from the new paths and currentPath.
C8_MutationIsRepainted ==
    [][(/\ event' \in {"grant", "move", "release", "terminate", "clear"}
        /\ (paths' # paths \/ currentPath' # currentPath))
       => (/\ canvasRef' # Null
           /\ canvasRef' = drawPaths(NewCanvas, paths', currentPath'))]_vars

\* a move painted the stroke in progress on a canvas opened blank
C8_Witness ==
    /\ event = "move"
    /\ canvasRef # Null
    /\ canvasRef.pixels[<<0, 0>>] = "black"
    /\ canvasRef.pixels[<<0, 1>>] = "white"

\* C9: a Save press starts one encoding of the surface; when it succeeds,
\* onSave is invoked exactly once, with that data URL, and the encoding is
\* used up; no other step invokes onSave (a failed encoding, a press with
\* no surface, a dismissal) and no other step starts an encoding.
C9_OnSaveOncePerSuccessfulSave ==
    [][/\ event' = "save" =>
             IF canvasRef # Null
             THEN /\ Len(pending') = Len(pending) + 1
                  /\ SubSeq(pending', 1, Len(pending)) = pending
                  /\ pending'[Len(pending')].dataURL = toDataURL(canvasRef)
             ELSE pending' = pending
       /\ event' = "saveResolve" =>
             /\ pending # <<>>
             /\ CallsOf(calls', "onSave") = <<Call("onSave", Head(pending).dataURL)>>
             /\ pending' = Tail(pending)
       /\ event' # "saveResolve" => CallsOf(calls', "onSave") = <<>>
       /\ event' # "save" => Len(pending') <= Len(pending)]_vars

\* a resolved save delivered the image of a drawn stroke to the form
C9_Witness ==
    /\ event = "saveResolve"
    /\ Len(CallsOf(calls, "onSave")) = 1
    /\ values["signature"] = calls[1].arg
    /\ calls[1].arg = toDataURL(drawPaths(NewCanvas, <<>>,
                          [points |-> <<Pt(0, 0), Pt(CanvasW, 0)>>,
                           color |-> "black", width |-> StrokeWidth]))

\* C10 as claimed: a dismissal invokes onClose, not onSave, and changes no
\* form value; a successful save invokes onSave and does not invoke onClose.
C10_SaveIsNotADismissal ==
    [][/\ event' \in Dismissals =>
             /\ CallsOf(calls', "onClose") # <<>>
             /\ CallsOf(calls', "onSave") = <<>>
             /\ values' = values
       /\ event' = "saveResolve" =>
             /\ CallsOf(calls', "onSave") # <<>>
             /\ CallsOf(calls', "onClose") = <<>>]_vars

\* C10, amended: a dismissal invokes onClose once and onSave never, and
\* changes no form value nor signatureSaved; a successful save invokes
\* onSave once and then onClose once, and that onClose leaves the state of
\* XMLFormRenderer as onSave left it.
C10_DismissalClosesSaveAlsoCloses ==
    [][/\ event' \in Dismissals =>
             /\ calls' = <<Call("onClose", Null)>>
             /\ values' = values
             /\ signatureSaved' = signatureSaved
             /\ ~drawingModalVisible' /\ currentDrawingField' = NullStr
       /\ event' = "saveResolve" =>
             /\ pending # <<>>
             /\ calls' = <<Call("onSave", Head(pending).dataURL), Call("onClose", Null)>>
             /\ App' = onSave(App, Head(pending).setter, Head(pending).field,
                              Head(pending).dataURL)]_vars

\* the capture UI was dismissed while the form held an image saved earlier
C10_Witness ==
    /\ event \in Dismissals
    /\ calls = <<Call("onClose", Null)>>
    /\ values["signature"] # Str("")
    /\ ~drawingModalVisible

\* C11: when toDataURL rejects, the failure is shown in an Alert, neither
\* onSave nor onClose is invoked, the capture UI stays as it was (open, if
\* it was open), and paths, currentPath and the surface are unchanged, so
\* the same drawing can be saved again.
C11_RejectedSaveKeepsDrawing ==
    [][event' = "saveReject" =>
          /\ CallsOf(calls', "Alert.alert") =
                 <<Call("Alert.alert", Str("Could not save drawing"))>>
          /\ CallsOf(calls', "onSave") = <<>>
          /\ CallsOf(calls', "onClose") = <<>>
          /\ drawingModalVisible' = drawingModalVisible
          /\ currentDrawingField' = currentDrawingField
          /\ values' = values
          /\ paths' = paths /\ currentPath' = currentPath
          /\ canvasRef' = canvasRef]_vars

\* an encoding failed while the capture UI was open with a stroke drawn,
\* and the Save button can be pressed again
C11_Witness ==
    /\ event = "saveReject"
    /\ drawingModalVisible /\ ~gesture
    /\ currentPath # Null
    /\ canvasRef # Null
    /\ canvasRef.pixels[<<0, 0>>] = "black"
    /\ pending = <<>>

\* The Save button is mounted together with the Canvas: whenever the capture
\* UI is shown canvasRef.current is set, so saveDrawing never runs with a
\* null canvasRef and its branch without an else is never taken.
SaveButtonHasSurface == drawingModalVisible <=> canvasRef # Null

\* C13: a Save pressed while paths is empty and currentPath is null (the
\* capture UI freshly opened or just cleared) succeeds: the encoding it
\* starts, which onSave will receive, is that of the blank, background-only
\* surface, and no error is raised or reported.
C13_EmptySaveEncodesBackground ==
    [][(event' = "save" /\ paths = <<>> /\ currentPath = Null) =>
          /\ Len(pending') = Len(pending) + 1
          /\ pending'[Len(pending')].dataURL =
                 toDataURL(drawPaths(NewCanvas, <<>>, Null))
          /\ CallsOf(calls', "Alert.alert") = <<>>
          /\ ~crashed']_vars

\* the part of C13 that the code keeps: the empty Save starts an encoding
\* of a surface without any stroke on it, and reports no error
C13_EmptySaveSucceeds ==
    [][(event' = "save" /\ paths = <<>> /\ currentPath = Null) =>
          /\ Len(pending') = Len(pending) + 1
          /\ \A i \in DOMAIN pending'[Len(pending')].dataURL.data :
                 pending'[Len(pending')].dataURL.data[i] # "black"
          /\ CallsOf(calls', "Alert.alert") = <<>>
          /\ ~crashed']_vars

\* C14: the stroke state lives for one opening of the capture UI only:
\* whenever the capture UI has just been opened, also after an earlier
\* opening was closed by Save or Cancel, paths is empty and currentPath is
\* null, and the surface shows no stroke.
C14_OpensWithEmptyStrokeState ==
    event = "openDrawing" =>
        /\ paths = <<>>
        /\ currentPath = Null
        /\ \A c \in Cells : canvasRef.pixels[c] # "black"

\* what the code keeps of C14: the Canvas mounted by a new opening shows
\* nothing of the earlier one
C14_OpensWithUnpaintedSurface ==
    event = "openDrawing" => canvasRef = NewCanvas

\* C15: a successful save from the capture UI opened for drawing field f
\* (the field the Save was pressed for) sets the form value of f to the
\* delivered data URL, changes no other field's value, and leaves the
\* capture UI closed with currentDrawingField null.
C15_SaveSetsOnlyItsField ==
    [][event' = "saveResolve" =>
          LET p == Head(pending)
          IN  /\ p.field \in FieldIds
              /\ values' = [values EXCEPT ![p.field] = p.dataURL]
              /\ ~drawingModalVisible'
              /\ currentDrawingField' = NullStr]_vars

\* the Save button captures the field the capture UI was opened for
C15_SaveCapturesOpenedField ==
    [][event' = "save" =>
          /\ currentDrawingField \in FieldIds
          /\ pending'[Len(pending')].field = currentDrawingField]_vars

\* what the code keeps of C15: while the Formik of the press is still
\* mounted when the encoding completes, exactly the value of f is set
C15_SaveSetsOnlyItsFieldWhileMounted ==
    [][(event' = "saveResolve" /\ Head(pending).setter = "mounted") =>
          LET p == Head(pending)
          IN  /\ p.field \in FieldIds
              /\ values' = [values EXCEPT ![p.field] = p.dataURL]
              /\ ~drawingModalVisible'
              /\ currentDrawingField' = NullStr]_vars

\* the cells some stroke of ps, or the stroke cp, passes over
StrokedCells(ps, cp) ==
    UNION ({StrokeCells(ps[i]) : i \in DOMAIN ps}
             \cup (IF cp # Null THEN {StrokeCells(cp)} ELSE {}))

\* C16: drawPaths is idempotent: run again with paths and currentPath
\* unchanged, it leaves the surface the first run produced, whatever the
\* surface held before the first run.
C16_RepaintIdempotent ==
    [][(event = "drawPaths" /\ event' = "drawPaths"
          /\ paths' = paths /\ currentPath' = currentPath)
          => canvasRef' = canvasRef]_vars

\* the effect ran twice, the first time on a surface that differs from the
\* result, with committed strokes and a stroke in progress
C16_Witness ==
    /\ event = "drawPaths"
    /\ Len(calls) = 2
    /\ calls[1].arg # canvasRef
    /\ calls[2].arg = canvasRef
    /\ paths # <<>> /\ currentPath # Null
    /\ \E c \in Cells : canvasRef.pixels[c] = "white"

\* C19: the surface after a repaint is a function of (paths, currentPath)
\* only: the background everywhere, then the strokes of paths in order, then
\* currentPath; nothing of what the surface held before survives.
C19_RepaintDependsOnStrokesOnly ==
    event = "drawPaths" =>
        canvasRef = [pixels |-> [c \in Cells |->
                        IF c \in StrokedCells(paths, currentPath) THEN "black"
                        ELSE "white"]]

\* a repaint of a surface that was black all over, with two committed
\* strokes and a stroke in progress, left cells of the background colour
C19_Witness ==
    /\ event = "drawPaths"
    /\ Len(calls) = 1
    /\ \A c \in Cells : calls[1].arg.pixels[c] = "black"
    /\ Len(paths) = 2 /\ currentPath # Null
    /\ \E c \in Cells : canvasRef.pixels[c] = "white"
    /\ \E c \in Cells : canvasRef.pixels[c] = "black"

\* the three ways an input is invalid: empty or all blank, not well-formed,
\* or holding a field whose type is none of the four supported ones
InvalidXml(x) ==
    \/ x.kind = "blank"
    \/ x.kind = "malformed"
    \/ \E i \in DOMAIN x.fields :
          x.fields[i].type \notin {"text", "datetime", "radio", "drawing"}

C18_SignatureSavedMeansDrawingValue ==
    signatureSaved =>
        \E i \in DOMAIN parsedFields :
            /\ parsedFields[i].type = "drawing"
            /\ values[parsedFields[i].id] # Str("")

\* what the code keeps of C18: only a delivered save sets the flag and only
\* a submit clears it
C18_SetBySaveClearedBySubmit ==
    [][/\ (~signatureSaved /\ signatureSaved') => event' = "saveResolve"
       /\ (signatureSaved /\ ~signatureSaved') => event' = "submit"]_vars

\* C20: when Cancel (or the host's close request) dismissed the capture UI
\* while a Save's encoding was pending, the completion of that encoding
\* delivers no image: onSave is not invoked and no form value changes.
C20_DismissedSaveDeliversNothing ==
    [][(event \in Dismissals /\ event' = "saveResolve") =>
          /\ CallsOf(calls', "onSave") = <<>>
          /\ values' = values
          /\ signatureSaved' = signatureSaved]_vars

\* C21: a gesture-move is never handled while currentPath is null: however
\* the gesture events interleave with Clear, Save, Cancel and the
\* completions of saves, onPanResponderMove finds an active stroke, appends
\* to it and does not fail on reading current.points.
C21_MoveFindsActiveStroke ==
    [][event' = "move" =>
          /\ currentPath # Null
          /\ currentPath' # Null
          /\ Len(currentPath'.points) = Len(currentPath.points) + 1
          /\ ~crashed']_vars

\* a move was handled in a gesture that began after a Clear, while an
\* earlier Save was still pending
C21_Witness ==
    /\ event = "move"
    /\ gesture
    /\ paths = <<>>
    /\ Len(currentPath.points) = 2
    /\ pending # <<>>
    /\ pending[1].dataURL.data[1] = "white"

\* C22: no drawn stroke is lost except by Clear: a gesture-start never
\* overwrites a non-null currentPath that has not been committed to paths.
C22_GrantOverwritesNoStroke ==
    [][event' = "grant" =>
          \/ currentPath = Null
          \/ \E i \in DOMAIN paths : paths[i] = currentPath]_vars

\* a point outside the canvas: negative, or at or beyond width or height
OutOfBounds(p) == p.x < 0 \/ p.y < 0 \/ p.x >= CanvasW \/ p.y >= CanvasH

\* C23: a touch point outside the canvas bounds is handled like any other:
\* grant and move record it unchanged as the last point of the active
\* stroke, no error state is reached, and the repaint completes (every cell
\* is background or stroke colour afterwards).
C23_OutOfBoundsTouchRecorded ==
    [][(event' \in {"grant", "move"} /\ OutOfBounds(touches'[Len(touches')])) =>
          /\ ~crashed'
          /\ currentPath' # Null
          /\ currentPath'.points = touches'
          /\ canvasRef' # Null
          /\ canvasRef' = drawPaths(canvasRef, paths', currentPath')
          /\ \A c \in Cells : canvasRef'.pixels[c] \in {"white", "black"}]_vars

\* a stroke went from a negative point to a point beyond width and height,
\* and the repaint drew the part of it that crosses the canvas
C23_Witness ==
    /\ event = "move"
    /\ ~crashed
    /\ currentPath # Null
    /\ currentPath.points = <<Pt(0 - 1, 0 - 1), Pt(CanvasW, CanvasH)>>
    /\ canvasRef.pixels[<<0, 0>>] = "black"
    /\ \E c \in Cells : canvasRef.pixels[c] = "white"

\* every stroke held in the state has at least one point
StrokesHavePoints ==
    /\ currentPath # Null => Len(currentPath.points) >= 1
    /\ \A i \in DOMAIN paths : Len(paths[i].points) >= 1

\* C24: in every reachable state currentPath, when non-null, and every
\* stroke in paths hold at least one point; and a tap (a grant followed
\* directly by the release) leaves a stroke of exactly one point, the point
\* touched, as the last of paths or, if the release committed nothing, in
\* currentPath.
C24_StrokesHaveAPoint ==
    [][/\ StrokesHavePoints'
       /\ (event = "grant" /\ event' = "release") =>
             LET tap == IF Len(paths') > Len(paths) THEN paths'[Len(paths')]
                        ELSE currentPath'
             IN  /\ tap # Null
                 /\ tap.points = touches'
                 /\ Len(tap.points) = 1]_vars

\* a tap ended: one touch, and the stroke it left has that one point
C24_Witness ==
    /\ event = "release"
    /\ Len(touches) = 1
    /\ currentPath # Null
    /\ currentPath.points = touches

====
